---- MODULE Spec2Model ----
(***************************************************************************)
(* URL-to-presentation pipeline of backend/workflow.py, with the HTTP      *)
(* handler of backend/server.py that calls it.                             *)
(*                                                                         *)
(* Strings are sequences of segments, so that the string operations the    *)
(* code applies (split on blank lines, strip, slicing, the {...} regular   *)
(* expression, json.loads / json.dumps) are computed and not assumed:      *)
(*   prose : a run of non-blank text with no brace and no line break that  *)
(*           is not JSON (id names it, len is its length)                  *)
(*   sp    : a run of len spaces                                           *)
(*   nl    : a run of len line breaks                                      *)
(*   junk  : a brace-delimited span "{...}" that is not JSON               *)
(*   num   : the decimal digits of the natural number n                    *)
(*   obj   : the serialisation of the JSON object val                      *)
(*   url   : the text of the URL val                                       *)
(*   frag  : what is left of a junk/num/obj/url segment cut by a slice     *)
(* Python values are tagged records: none, str, num, list, dict.           *)
(***************************************************************************)
EXTENDS Integers, Sequences, FiniteSets, TLC

---------------------------------------------------------------------------
(* Python values *)

PyNone == [k |-> "none"]
PyStr(s) == [k |-> "str", s |-> s]
PyNum(n) == [k |-> "num", n |-> n]
PyList(xs) == [k |-> "list", items |-> xs]
PyDict(f) == [k |-> "dict", f |-> f]
EmptyDict == [x \in {} |-> PyNone]

\* d.get(key, default) of a dict
Get(d, key, default) == IF key \in DOMAIN d.f THEN d.f[key] ELSE default

\* bool(v)
Truthy(v) ==
    CASE v.k = "none" -> FALSE
      [] v.k = "str"  -> v.s # <<>>
      [] v.k = "num"  -> v.n # 0
      [] v.k = "list" -> v.items # <<>>
      [] v.k = "dict" -> DOMAIN v.f # {}

---------------------------------------------------------------------------
(* Text segments *)

Prose(id, n) == [t |-> "prose", id |-> id, len |-> n]
Sp(n) == [t |-> "sp", len |-> n]
Nl(n) == [t |-> "nl", len |-> n]
Junk(n) == [t |-> "junk", len |-> n]
Num(n) == [t |-> "num", n |-> n]
\* pad: the characters of layout (indentation, line breaks inside the object) a
\* writer other than json.dumps puts into the serialisation
ObjSeg(o, pad) == [t |-> "obj", val |-> o, pad |-> pad]
UrlSeg(u) == [t |-> "url", val |-> u]
Frag(of, n) == [t |-> "frag", of |-> of, len |-> n]

Min(a, b) == IF a < b THEN a ELSE b

RECURSIVE Digits(_)
Digits(n) == IF n < 10 THEN 1 ELSE 1 + Digits(n \div 10)

RECURSIVE SumSeq(_)
SumSeq(ns) == IF ns = <<>> THEN 0 ELSE Head(ns) + SumSeq(Tail(ns))

\* A URL is a sequence of parts: ws (blanks), plain (text holding none of the
\* video-link patterns), link (one of the patterns followed by exactly idlen
\* characters of [a-zA-Z0-9_-]).
\* The length of the pattern text of each link shape.
ShapeLen(shape) ==
    CASE shape = "watch"  -> 20
      [] shape = "short"  -> 9
      [] shape = "embed"  -> 18
      [] shape = "v"      -> 14
      [] shape = "shorts" -> 19
      [] OTHER            -> 0

UrlPartLen(p) ==
    CASE p.t = "ws"    -> p.len
      [] p.t = "plain" -> p.len
      [] p.t = "link"  -> ShapeLen(p.shape) + p.idlen

UrlLen(u) == SumSeq([i \in 1..Len(u) |-> UrlPartLen(u[i])])

RECURSIVE DumpLen(_)
RECURSIVE DumpKeys(_, _)
RECURSIVE SegLen(_)
RECURSIVE TextLen(_)

\* len(json.dumps(v)) with the default separators ", " and ": "
DumpLen(v) ==
    CASE v.k = "none" -> 4
      [] v.k = "num"  -> Digits(v.n)
      [] v.k = "str"  -> 2 + TextLen(v.s)
      [] v.k = "list" ->
           2 + SumSeq([i \in 1..Len(v.items) |-> DumpLen(v.items[i])])
             + (IF Len(v.items) > 1 THEN 2 * (Len(v.items) - 1) ELSE 0)
      [] v.k = "dict" ->
           2 + DumpKeys(v.f, DOMAIN v.f)
             + (IF Cardinality(DOMAIN v.f) > 1
                  THEN 2 * (Cardinality(DOMAIN v.f) - 1) ELSE 0)

DumpKeys(f, keys) ==
    IF keys = {} THEN 0
    ELSE LET key == CHOOSE x \in keys : TRUE
         IN  Len(key) + 4 + DumpLen(f[key]) + DumpKeys(f, keys \ {key})

SegLen(s) ==
    CASE s.t \in {"prose", "sp", "nl", "junk", "frag"} -> s.len
      [] s.t = "num" -> Digits(s.n)
      [] s.t = "obj" -> DumpLen(s.val) + s.pad
      [] s.t = "url" -> UrlLen(s.val)

\* len(text)
TextLen(txt) == IF txt = <<>> THEN 0 ELSE SegLen(Head(txt)) + TextLen(Tail(txt))

IsBlank(s) == s.t \in {"sp", "nl"}

\* the segment s cut to its first n characters (0 < n < SegLen(s))
CutSeg(s, n) ==
    CASE s.t \in {"prose", "sp", "nl", "frag"} -> [s EXCEPT !.len = n]
      [] OTHER -> Frag(s.t, n)

\* text[:n]
RECURSIVE Take(_, _)
Take(txt, n) ==
    IF txt = <<>> \/ n <= 0 THEN <<>>
    ELSE IF SegLen(Head(txt)) <= n
         THEN <<Head(txt)>> \o Take(Tail(txt), n - SegLen(Head(txt)))
         ELSE <<CutSeg(Head(txt), n)>>

RECURSIVE LStrip(_)
LStrip(txt) ==
    IF txt # <<>> /\ IsBlank(Head(txt)) THEN LStrip(Tail(txt)) ELSE txt

RECURSIVE RStrip(_)
RStrip(txt) ==
    IF txt # <<>> /\ IsBlank(txt[Len(txt)])
    THEN RStrip(SubSeq(txt, 1, Len(txt) - 1)) ELSE txt

\* text.strip()
Strip(txt) == RStrip(LStrip(txt))

\* a + b, joining a run of blanks that ends a with one of the same kind that
\* starts b
Cat(a, b) ==
    IF a # <<>> /\ b # <<>> /\ IsBlank(a[Len(a)]) /\ a[Len(a)].t = Head(b).t
    THEN SubSeq(a, 1, Len(a) - 1)
           \o <<[Head(b) EXCEPT !.len = a[Len(a)].len + Head(b).len]>>
           \o Tail(b)
    ELSE a \o b

---------------------------------------------------------------------------
(* Program constants *)

ChunkLimit == 500
MaxChunks == 10
BodyLimit == 400
SubtitleLimit == 200
MinFragLen == 20
ContentBudget == 50000
VideoIdLen == 11

---------------------------------------------------------------------------
(* Regular expressions and JSON *)

HasBrace(s) == s.t \in {"junk", "obj"}

BraceIdx(txt) == {i \in 1..Len(txt) : HasBrace(txt[i])}

SetMin(S) == CHOOSE x \in S : \A y \in S : x <= y
SetMax(S) == CHOOSE x \in S : \A y \in S : x >= y

\* re.search(r'\{[\s\S]*\}', text): from the first "{" to the last "}"
JsonMatch(txt) ==
    IF BraceIdx(txt) = {} THEN [found |-> FALSE]
    ELSE [found |-> TRUE,
          group |-> SubSeq(txt, SetMin(BraceIdx(txt)), SetMax(BraceIdx(txt)))]

\* json.loads(text): blanks around the document are skipped; ok = FALSE is
\* json.JSONDecodeError. A num segment stands for the JSON documents that are
\* not objects.
JsonLoads(txt) ==
    LET doc == Strip(txt)
    IN  IF Len(doc) = 1 /\ doc[1].t = "obj" THEN [ok |-> TRUE, val |-> doc[1].val]
        ELSE IF Len(doc) = 1 /\ doc[1].t = "num"
             THEN [ok |-> TRUE, val |-> PyNum(doc[1].n)]
             ELSE [ok |-> FALSE]

\* json.dumps(value)
JsonDumps(v) == <<ObjSeg(v, 0)>>

\* text.split("\n\n"): a run of k line breaks holds k \div 2 separators, read
\* from the left; an odd line break left over starts the next part
RECURSIVE SplitParas(_, _)
SplitParas(txt, cur) ==
    IF txt = <<>> THEN <<cur>>
    ELSE LET s == Head(txt)
         IN  IF s.t = "nl" /\ s.len >= 2
             THEN <<cur>> \o [i \in 1..((s.len \div 2) - 1) |-> <<>>]
                    \o SplitParas(Tail(txt),
                                  IF s.len % 2 = 1 THEN <<Nl(1)>> ELSE <<>>)
             ELSE SplitParas(Tail(txt), cur \o <<s>>)

Split(txt) == SplitParas(txt, <<>>)

\* re.sub(r'\n{3,}', '\n\n', text)
CollapseNewlines(txt) ==
    [i \in 1..Len(txt) |->
        IF txt[i].t = "nl" /\ txt[i].len >= 3 THEN Nl(2) ELSE txt[i]]

\* sep.join(parts)
RECURSIVE Join(_, _)
Join(sep, parts) ==
    IF parts = <<>> THEN <<>>
    ELSE IF Len(parts) = 1 THEN Head(parts)
         ELSE Cat(Cat(Head(parts), sep), Join(sep, Tail(parts)))

---------------------------------------------------------------------------
(* URLs *)

LinkShapes == {"watch", "short", "embed", "v", "shorts"}

\* the patterns looked for at the start of the URL only (re.match)
IsYoutube_AtStart(url) == url # <<>> /\ url[1].t = "link"

\* any(re.search(pattern, url) for pattern in youtube_patterns)
IsYoutube(url) == \E i \in 1..Len(url) : url[i].t = "link"

IdIdx(url) == {i \in 1..Len(url) : url[i].t = "link" /\ url[i].idlen >= VideoIdLen}

\* extract_youtube_id: the leftmost pattern followed by 11 id characters; the
\* id is named by the part it was read from; none when there is no match
extract_youtube_id(url) ==
    IF IdIdx(url) = {} THEN PyNone
    ELSE PyStr(<<Prose(url[SetMin(IdIdx(url))].shape, VideoIdLen)>>)

\* url.strip(): the blanks at both ends go
UrlStrip(url) ==
    LET keep == {i \in 1..Len(url) : url[i].t # "ws"}
    IN  IF keep = {} THEN <<>> ELSE SubSeq(url, SetMin(keep), SetMax(keep))

---------------------------------------------------------------------------
(* Fixed texts of the program *)

Lit(text) == <<Prose(text, Len(text))>>

YoutubePlaceholder == PyStr(Lit("YouTube Video Presentation"))
BlogPlaceholder == PyStr(Lit("Blog Content Presentation"))

\* f"{prefix}{str(e)}"
Message(prefix, e) == PyStr(Cat(Lit(prefix), e))

---------------------------------------------------------------------------
(* The nodes of the workflow, as functions of the state they are given *)

\* process_url: the state the workflow is started with
initial_state(url) ==
    [url |-> url, url_type |-> "unknown", raw_content |-> <<>>,
     title |-> PyStr(<<>>), refined_content |-> <<>>,
     presentation_slides |-> <<>>, error |-> PyNone]

detect_url_type(st) ==
    [st EXCEPT !.url_type = IF IsYoutube(st.url) THEN "youtube" ELSE "blog"]

route_by_url_type(st) ==
    IF st.url_type = "youtube" THEN "extract_youtube" ELSE "extract_blog"

\* The title the oEmbed lookup leaves: any failure of the lookup gives the
\* placeholder, a 200 reply gives data.get("title", placeholder).
\*   oembed.kind: "raise" (the request, response.json() or data.get raised),
\*                "status" (a reply that is not 200), "json" (data is the dict)
OembedTitle(oembed) ==
    IF oembed.kind = "json" THEN Get(oembed.data, "title", YoutubePlaceholder)
    ELSE YoutubePlaceholder

\* the check of the video id left out
HasVideoId_Always(st) == TRUE

\* "if not video_id" is false: the transcript service is called
HasVideoId(st) == extract_youtube_id(st.url) # PyNone

\* extract_youtube_content
\*   transcript.kind: "raise" (get_transcript, or reading a segment, raised an
\*                    exception whose str() is transcript.msg),
\*                    "ok" (transcript.texts are the segments' texts)
extract_youtube_content(st, transcript, oembed) ==
    IF ~HasVideoId(st)
    THEN [st EXCEPT !.error = PyStr(Lit("Could not extract YouTube video ID from URL")),
                    !.raw_content = <<>>]
    ELSE IF transcript.kind = "raise"
         THEN [st EXCEPT !.error = Message("Failed to extract YouTube transcript: ",
                                           transcript.msg),
                         !.raw_content = <<>>,
                         !.title = YoutubePlaceholder]
         ELSE [st EXCEPT !.title = OembedTitle(oembed),
                         !.raw_content = Join(<<Sp(1)>>, transcript.texts),
                         !.error = PyNone]

content_selectors ==
    <<"article", "main", "[role='main']", ".post-content", ".entry-content",
      ".article-content", ".content", "#content">>

\* The element the text is read from: the first selector of the list that
\* matches, else the body; "" when the page has neither.
\*   page.roots: the elements of the page a selector (or "body") finds, each
\*               with the texts of its p/h1..h6/li descendants
MainContent(page) ==
    LET hits == {i \in 1..Len(content_selectors) :
                    content_selectors[i] \in DOMAIN page.roots}
    IN  IF hits # {} THEN content_selectors[SetMin(hits)]
        ELSE IF "body" \in DOMAIN page.roots THEN "body" ELSE ""

\* the fragments kept: stripped, not empty and longer than MinFragLen
RECURSIVE TextParts(_)
TextParts(frags) ==
    IF frags = <<>> THEN <<>>
    ELSE LET text == Strip(Head(frags))
         IN  (IF text # <<>> /\ TextLen(text) > MinFragLen THEN <<text>> ELSE <<>>)
               \o TextParts(Tail(frags))

\* extract_blog_content
\*   http.kind: "request_error" (requests.get or raise_for_status raised a
\*              RequestException), "processing_error" (any other exception),
\*              "page" (http.page is the parsed page)
extract_blog_content(st, http) ==
    CASE http.kind = "request_error" ->
           [st EXCEPT !.error = Message("Failed to fetch blog content: ", http.msg),
                      !.raw_content = <<>>,
                      !.title = BlogPlaceholder]
      [] http.kind = "processing_error" ->
           [st EXCEPT !.error = Message("Error processing blog content: ", http.msg),
                      !.raw_content = <<>>,
                      !.title = BlogPlaceholder]
      [] http.kind = "page" ->
           LET page == http.page
               root == MainContent(page)
               text == IF root # ""
                       THEN Join(<<Nl(2)>>, TextParts(page.roots[root]))
                       ELSE Strip(page.text)
           IN  [st EXCEPT !.title = IF page.has_title
                                    THEN PyStr(Strip(page.title))
                                    ELSE BlogPlaceholder,
                          !.raw_content = CollapseNewlines(text),
                          !.error = PyNone]

\* the content the prompt holds: the raw text cut to the first ContentBudget
\* characters
PromptContent(st) == Take(st.raw_content, ContentBudget)

\* whether refine_content calls the model at all
RefineSkips(st) == Truthy(st.error) \/ st.raw_content = <<>>

\* refine_content
\*   llm.kind: "raise" (the model call raised an exception whose str() is
\*             llm.msg), "reply" (llm.text is response.content)
DecodeErrorMsg == Lit("Expecting property name enclosed in double quotes")

\* the except block without its fallback to the raw text
RefineFailed_NoFallback(st, msg) ==
    [st EXCEPT !.error = Message("Failed to refine content with Gemini: ", msg)]

RefineFailed(st, msg) ==
    [st EXCEPT !.error = Message("Failed to refine content with Gemini: ", msg),
               !.refined_content = st.raw_content]

refine_content(st, llm) ==
    IF RefineSkips(st) THEN st
    ELSE IF llm.kind = "raise" THEN RefineFailed(st, llm.msg)
    ELSE LET json_match == JsonMatch(llm.text)
         IN  IF json_match.found
             THEN LET parsed == JsonLoads(json_match.group)
                  IN  IF parsed.ok
                      THEN [st EXCEPT !.refined_content = JsonDumps(parsed.val),
                                      !.title = Get(parsed.val, "title", st.title),
                                      !.error = PyNone]
                      ELSE RefineFailed(st, DecodeErrorMsg)
             ELSE [st EXCEPT !.refined_content = llm.text,
                             !.error = PyNone]

\* value[:SubtitleLimit]; ok = FALSE when the value cannot be sliced
Slice(v, n) ==
    CASE v.k = "str"  -> [ok |-> TRUE, val |-> PyStr(Take(v.s, n))]
      [] v.k = "list" -> [ok |-> TRUE,
                          val |-> PyList(SubSeq(v.items, 1, Min(n, Len(v.items))))]
      [] OTHER        -> [ok |-> FALSE]

\* what "for i, point in enumerate(value)" runs over; ok = FALSE when the
\* value is not iterable. A string gives its characters and a dict its keys,
\* which are strings.
Iterate(v) ==
    CASE v.k = "list" -> [ok |-> TRUE, items |-> v.items]
      [] v.k = "str"  ->
           [ok |-> TRUE,
            items |-> [i \in 1..TextLen(v.s) |-> PyStr(Take(v.s, 1))]]
      [] v.k = "dict" ->
           [ok |-> TRUE,
            items |-> [i \in 1..Cardinality(DOMAIN v.f) |-> PyStr(Lit("key"))]]
      [] OTHER        -> [ok |-> FALSE]

Returned(slides) == [raised |-> FALSE, slides |-> slides]
Raised(exc) == [raised |-> TRUE, exc |-> exc]

ErrorSlide(st) == [type |-> "error", title |-> PyStr(Lit("Error")), content |-> st.error]

ClosingSlide(prefix, st) ==
    [type |-> "closing", title |-> PyStr(Lit("Thank You")),
     content |-> PyStr(Lit(prefix) \o <<UrlSeg(st.url)>>)]

\* slide numbers counted from 1 instead of 2
PointSlide_FromOne(point, i) ==
    [type |-> "content",
     title |-> Get(point, "heading", PyStr(Lit("Point ") \o <<Num(i)>>)),
     content |-> Get(point, "content", PyStr(<<>>)),
     slide_number |-> i]

\* the content slide of key point number i (from 1)
PointSlide(point, i) ==
    [type |-> "content",
     title |-> Get(point, "heading", PyStr(Lit("Point ") \o <<Num(i)>>)),
     content |-> Get(point, "content", PyStr(<<>>)),
     slide_number |-> i + 1]

\* the try block of generate_presentation once json.loads has returned
\* refined_data
StructuredSlides(st, refined_data) ==
    IF refined_data.k # "dict" THEN Raised("AttributeError")
    ELSE LET summary == Get(refined_data, "summary", PyStr(<<>>))
             subtitle == IF Truthy(summary) THEN Slice(summary, SubtitleLimit)
                         ELSE [ok |-> TRUE, val |-> PyStr(<<>>)]
             key_points == Iterate(Get(refined_data, "key_points", PyList(<<>>)))
         IN  IF ~subtitle.ok THEN Raised("TypeError")
             ELSE IF ~key_points.ok THEN Raised("TypeError")
             ELSE IF \E i \in 1..Len(key_points.items) : key_points.items[i].k # "dict"
                  THEN Raised("AttributeError")
             ELSE Returned(
                    <<[type |-> "title",
                       title |-> Get(refined_data, "title", st.title),
                       subtitle |-> subtitle.val]>>
                    \o [i \in 1..Len(key_points.items) |->
                          PointSlide(key_points.items[i], i)]
                    \o <<ClosingSlide("Presentation generated from: ", st)>>)

\* the loop that packs the paragraphs into chunks, from its state
\* (chunks, current_chunk) before the paragraphs left
RECURSIVE PackFrom(_, _, _)
PackFrom(paragraphs, chunks, current_chunk) ==
    IF paragraphs = <<>>
    THEN IF current_chunk # <<>> THEN Append(chunks, Strip(current_chunk)) ELSE chunks
    ELSE LET para == Head(paragraphs)
         IN  IF TextLen(current_chunk) + TextLen(para) < ChunkLimit
             THEN PackFrom(Tail(paragraphs), chunks,
                           Cat(Cat(current_chunk, para), <<Nl(2)>>))
             ELSE PackFrom(Tail(paragraphs),
                           IF current_chunk # <<>>
                             THEN Append(chunks, Strip(current_chunk)) ELSE chunks,
                           Cat(para, <<Nl(2)>>))

\* the chunks without the cut to the first MaxChunks
Chunks_Uncapped(content) == PackFrom(Split(content), <<>>, <<>>)

\* the chunks of the fallback branch: packed, then cut to the first MaxChunks
Chunks(content) ==
    LET chunks == PackFrom(Split(content), <<>>, <<>>)
    IN  SubSeq(chunks, 1, Min(MaxChunks, Len(chunks)))

ChunkSlide(chunk, i) ==
    [type |-> "content",
     title |-> PyStr(Lit("Section ") \o <<Num(i)>>),
     content |-> PyStr(Take(chunk, BodyLimit)),
     slide_number |-> i + 1]

\* the fallback slides appended to the list the state already holds, instead
\* of to a new list
FallbackSlides_Appending(st) ==
    LET content == IF st.refined_content # <<>> THEN st.refined_content
                   ELSE st.raw_content
        chunks == Chunks(content)
    IN  st.presentation_slides
          \o <<[type |-> "title", title |-> st.title, subtitle |-> PyStr(<<>>)]>>
          \o [i \in 1..Len(chunks) |-> ChunkSlide(chunks[i], i)]
          \o <<ClosingSlide("Generated from: ", st)>>

\* the except json.JSONDecodeError block of generate_presentation
FallbackSlides(st) ==
    LET content == IF st.refined_content # <<>> THEN st.refined_content
                   ELSE st.raw_content
        chunks == Chunks(content)
    IN  <<[type |-> "title", title |-> st.title, subtitle |-> PyStr(<<>>)]>>
          \o [i \in 1..Len(chunks) |-> ChunkSlide(chunks[i], i)]
          \o <<ClosingSlide("Generated from: ", st)>>

\* the error branch taken whenever there is no refined content, error or not
IsFatal_EmptyRefined(st) == st.refined_content = <<>>

\* the error branch taken on any error, refined content or not
IsFatal_AnyError(st) == Truthy(st.error)

\* whether generate_presentation takes its error branch
IsFatal(st) == Truthy(st.error) /\ st.refined_content = <<>>

\* generate_presentation: the slide list it stores, or the exception it lets
\* through (only json.JSONDecodeError is caught)
BuildSlides(st) ==
    IF IsFatal(st) THEN Returned(<<ErrorSlide(st)>>)
    ELSE LET parsed == JsonLoads(st.refined_content)
         IN  IF parsed.ok THEN StructuredSlides(st, parsed.val)
             ELSE Returned(FallbackSlides(st))

\* what process_url returns for the final state of the workflow
ProcessUrlResult(st) ==
    [success |-> st.error = PyNone, url |-> st.url, url_type |-> st.url_type,
     title |-> st.title, slides |-> st.presentation_slides, error |-> st.error]

---------------------------------------------------------------------------
(* The inputs: URLs, and what the external services answer *)

MaxParas == 12
MaxPoints == 7

\* n copies of x
Rep(x, n) == [i \in 1..n |-> x]

Para(id, n) == <<Prose(id, n)>>

IdLens == {0, VideoIdLen - 1, VideoIdLen, VideoIdLen + 1}

Plain == [t |-> "plain", len |-> 27]
Link(shape, idlen) == [t |-> "link", shape |-> shape, idlen |-> idlen]
Ws == [t |-> "ws", len |-> 1]

\* the URLs process_url is called with
Urls ==
    {<<Plain>>}
      \cup {<<Link(sh, n)>> : sh \in LinkShapes, n \in IdLens}
      \cup {<<Link("short", 3), Plain, Link("watch", VideoIdLen)>>,
            <<Plain, Link("embed", 0), Plain>>}

\* the URLs of the requests the server is sent: also blank ones, and ones with
\* blanks around them
RequestUrls ==
    {<<>>, <<Ws>>, <<Plain>>, <<Ws, Plain, Ws>>,
     <<Link("watch", VideoIdLen)>>, <<Link("short", 0)>>}

SlideCounts == {PyNone, PyNum(-1), PyNum(0), PyNum(1), PyNum(8)}

\* the URLs the classification endpoint is sent: they are not stripped
DetectUrls ==
    RequestUrls \cup {<<Plain, Link("shorts", 2)>>, <<Ws, Link("v", VideoIdLen), Ws>>}

Requests ==
    {[entry |-> "direct", url |-> u, slide_count |-> PyNone] : u \in Urls}
      \cup {[entry |-> "server", url |-> u, slide_count |-> c] :
              u \in RequestUrls, c \in SlideCounts}
      \cup {[entry |-> "detect", url |-> u, slide_count |-> PyNone] :
              u \in DetectUrls}

ExcMsgs == {Lit("timed out"), <<>>}

TranscriptOutcomes ==
    {[kind |-> "raise", msg |-> Lit("no transcript")]}
      \cup {[kind |-> "ok", texts |-> ts] :
              ts \in {<<>>,
                      <<Para("seg", 30)>>,
                      <<Para("seg", 30), Para("seg", 600)>>,
                      <<<<Num(42)>>>>,
                      <<<<ObjSeg(PyDict([title |-> PyStr(Lit("T"))]), 0)>>>>}}

OembedOutcomes ==
    {[kind |-> "raise"], [kind |-> "status"],
     [kind |-> "json", data |-> PyDict(EmptyDict)],
     [kind |-> "json", data |-> PyDict([title |-> PyStr(Lit("Video"))])],
     [kind |-> "json", data |-> PyDict([title |-> PyNone])]}

\* the texts of the p/h1..h6/li elements of a page
Frags ==
    {Para("p", n) : n \in {5, MinFragLen - 1, MinFragLen, MinFragLen + 1, 250,
                           ChunkLimit - 1, ChunkLimit, 600}}
      \cup {<<Sp(2), Prose("p", MinFragLen + 1), Nl(1)>>,
            <<Sp(2), Prose("p", MinFragLen), Nl(1)>>,
            <<Sp(3)>>,
            <<Prose("p", 30), Nl(4), Prose("q", 30)>>,
            <<ObjSeg(PyDict([title |-> PyStr(Lit("A title in the page"))]), 0)>>}

FragLists ==
    {<<>>}
      \cup {<<f>> : f \in Frags}
      \cup {<<f, g>> : f \in {Para("p", 250), Para("p", 5)}, g \in Frags}
      \cup {Rep(Para("p", n), MaxParas) : n \in {30, 250, ChunkLimit - 1}}

Pages ==
    {[has_title |-> TRUE, title |-> <<Sp(1), Prose("Page", 4), Nl(1)>>,
      roots |-> [body |-> fs], text |-> <<>>] : fs \in FragLists}
      \cup {[has_title |-> FALSE, title |-> <<>>,
             roots |-> [main |-> <<Para("m", 40)>>, article |-> <<Para("a", 50)>>,
                        body |-> <<Para("b", 60)>>],
             text |-> <<>>],
            [has_title |-> FALSE, title |-> <<>>,
             roots |-> [main |-> <<Para("m", 40)>>, body |-> <<Para("b", 60)>>],
             text |-> <<>>],
            [has_title |-> TRUE, title |-> <<>>, roots |-> EmptyDict,
             text |-> <<Sp(1), Prose("loose", 12), Nl(3), Prose("text", 9)>>],
            [has_title |-> FALSE, title |-> <<>>, roots |-> EmptyDict,
             text |-> <<>>]}

HttpOutcomes ==
    {[kind |-> "request_error", msg |-> Lit("404 Client Error")],
     [kind |-> "processing_error", msg |-> Lit("parser failure")]}
      \cup {[kind |-> "page", page |-> pg] : pg \in Pages}

Heading(i) == PyStr(Lit("Heading ") \o <<Num(i)>>)
Body(i) == PyStr(<<Prose("body", 80), Num(i)>>)

Point(i) == PyDict([heading |-> Heading(i), content |-> Body(i)])

\* a reply object of the shape the prompt asks for, with n key points
Outline(n) ==
    PyDict([title |-> PyStr(Lit("Refined")),
            summary |-> PyStr(Para("summary", 120)),
            key_points |-> PyList([i \in 1..n |-> Point(i)])])

Summaries ==
    {PyStr(<<>>), PyStr(Para("summary", SubtitleLimit)),
     PyStr(Para("summary", SubtitleLimit + 50)), PyNone, PyNum(0), PyNum(5),
     PyList(<<>>), PyList(<<PyNum(1)>>), PyDict([a |-> PyNum(1)])}

KeyPoints ==
    {PyNone, PyNum(3), PyStr(<<>>), PyStr(Lit("points")), PyDict(EmptyDict),
     PyDict([a |-> PyNum(1)]),
     PyList(<<PyStr(Lit("a point"))>>),
     PyList(<<Point(1), PyNone>>),
     PyList(<<PyDict(EmptyDict), PyDict([heading |-> PyNum(7)])>>)}

\* the JSON objects a reply may hold
ReplyObjects ==
    {Outline(n) : n \in 0..MaxPoints}
      \cup {PyDict(EmptyDict),
            PyDict([title |-> PyNone]),
            PyDict([title |-> PyNum(5), key_points |-> PyList(<<Point(1)>>)]),
            PyDict([summary |-> PyStr(Para("summary", 120))])}
      \cup {PyDict([title |-> PyStr(Lit("Refined")), summary |-> sm,
                    key_points |-> PyList(<<Point(1)>>)]) : sm \in Summaries}
      \cup {PyDict([title |-> PyStr(Lit("Refined")),
                    summary |-> PyStr(Para("summary", 120)),
                    key_points |-> kp]) : kp \in KeyPoints}

\* the texts a reply may be when it holds no brace
PlainReplies ==
    {<<>>, <<Sp(2)>>, <<Num(42)>>, <<Nl(1), Num(42), Sp(1)>>}
      \cup {Join(<<Nl(2)>>, Rep(Para("r", n), m)) :
              n \in {0, 40, 250, ChunkLimit - 1, ChunkLimit, 600},
              m \in {1, 2, MaxParas}}
      \cup {<<Prose("r", 40), Nl(k), Prose("s", 40)>> : k \in 1..5}
      \cup {<<Sp(1), Prose("r", 450), Nl(2), Sp(4), Prose("s", 45), Nl(1)>>}

\* the texts the model may reply
Replies ==
    PlainReplies
      \cup {<<ObjSeg(o, 0)>> : o \in ReplyObjects}
      \cup {<<Prose("Here is the JSON:", 17), Nl(1), ObjSeg(Outline(n), 40), Nl(1),
              Prose("Hope this helps", 15)>> : n \in {0, 5}}
      \cup {<<Junk(6)>>,
            <<Prose("Use", 3), Sp(1), Junk(3), Nl(2), ObjSeg(Outline(5), 0)>>,
            <<ObjSeg(Outline(1), 0), Sp(1), ObjSeg(Outline(2), 0)>>}

LlmOutcomes ==
    {[kind |-> "raise", msg |-> m] : m \in ExcMsgs}
      \cup {[kind |-> "reply", text |-> r] : r \in Replies}

NotCalled == [kind |-> "not_called"]

---------------------------------------------------------------------------
(* The state machine *)

\* the number of parameters process_url declares, and the number of arguments
\* the server's handler calls it with
ProcessUrlParams == 1
ServerCallArgs == 2

VARIABLES
    pc,        \* where the run is: "request", a node of the workflow, "END", "done"
    request,   \* the request: who calls (entry), url, slide_count
    state,     \* the WorkflowState
    env,       \* what each external service answered, and the content of the
               \* prompt the model was sent
    trace,     \* the nodes run so far, in order
    outcome,   \* of process_url: pending, returned (result) or raised (exc)
    response,  \* of the server's handler: pending, or a status with its body
    clock,     \* int(time.time()): the time of day, in whole seconds
    files,     \* the audio directory: what each file name holds
    narr,      \* the narration calls: where each is, and what it has built
    video      \* the video export: where it is, and what it has built

\* the state of the URL-to-slides workflow and of its handler
flowVars == <<pc, request, state, env, trace, outcome, response>>

\* the state of narration and of video export
mediaVars == <<clock, files, narr, video>>

vars == <<pc, request, state, env, trace, outcome, response, clock, files, narr, video>>

Pending == [kind |-> "pending"]

\* no narration and no video export has been asked for
MediaIdle ==
    /\ clock = 0
    /\ files = <<>>
    /\ narr = <<>>
    /\ video = [status |-> "idle"]

Init ==
    /\ pc = "request"
    /\ request \in Requests
    /\ state = initial_state(<<>>)
    /\ env = [transcript |-> NotCalled, oembed |-> NotCalled, http |-> NotCalled,
              llm |-> NotCalled, prompt |-> <<>>]
    /\ trace = <<>>
    /\ outcome = Pending
    /\ response = Pending
    /\ MediaIdle

HttpError(status, detail) == [kind |-> "error", status |-> status, detail |-> detail]

\* process_url(url), called by code that imports it: the workflow starts
ProcessUrl ==
    /\ pc = "request"
    /\ request.entry = "direct"
    /\ state' = initial_state(request.url)
    /\ pc' = "detect_url_type"
    /\ UNCHANGED <<request, env, trace, outcome, response>>
    /\ UNCHANGED mediaVars

\* POST /api/generate-presentation, up to its call of process_url
ServerGeneratePresentation ==
    /\ pc = "request"
    /\ request.entry = "server"
    /\ IF request.url = <<>> \/ UrlStrip(request.url) = <<>>
       THEN /\ response' = HttpError(400, "URL cannot be empty")
            /\ pc' = "done"
            /\ UNCHANGED state
       ELSE IF request.slide_count # PyNone /\ request.slide_count.n <= 0
       THEN /\ response' = HttpError(400, "Slide count must be a positive integer")
            /\ pc' = "done"
            /\ UNCHANGED state
       ELSE IF ServerCallArgs > ProcessUrlParams
       THEN /\ response' = HttpError(500, "Failed to process URL: TypeError")
            /\ pc' = "done"
            /\ UNCHANGED state
       ELSE /\ state' = initial_state(UrlStrip(request.url))
            /\ pc' = "detect_url_type"
            /\ UNCHANGED response
    /\ UNCHANGED <<request, env, trace, outcome>>
    /\ UNCHANGED mediaVars

\* POST /api/detect-url-type
ServerDetectUrlType ==
    /\ pc = "request"
    /\ request.entry = "detect"
    /\ response' = [kind |-> "ok", status |-> 200,
                    body |-> [url |-> request.url,
                              type |-> IF IsYoutube(request.url)
                                       THEN "youtube" ELSE "blog"]]
    /\ pc' = "done"
    /\ UNCHANGED <<request, state, env, trace, outcome>>
    /\ UNCHANGED mediaVars

DetectUrlType ==
    /\ pc = "detect_url_type"
    /\ state' = detect_url_type(state)
    /\ pc' = route_by_url_type(state')
    /\ trace' = Append(trace, "detect_url_type")
    /\ UNCHANGED <<request, env, outcome, response>>
    /\ UNCHANGED mediaVars

ExtractYoutube ==
    /\ pc = "extract_youtube"
    /\ \E transcript \in TranscriptOutcomes, oembed \in OembedOutcomes :
         /\ state' = extract_youtube_content(state, transcript, oembed)
         /\ env' = IF ~HasVideoId(state) THEN env
                   ELSE IF transcript.kind = "raise"
                        THEN [env EXCEPT !.transcript = transcript]
                        ELSE [env EXCEPT !.transcript = transcript,
                                         !.oembed = oembed]
    /\ pc' = "refine_content"
    /\ trace' = Append(trace, "extract_youtube")
    /\ UNCHANGED <<request, outcome, response>>
    /\ UNCHANGED mediaVars

ExtractBlog ==
    /\ pc = "extract_blog"
    /\ \E http \in HttpOutcomes :
         /\ state' = extract_blog_content(state, http)
         /\ env' = [env EXCEPT !.http = http]
    /\ pc' = "refine_content"
    /\ trace' = Append(trace, "extract_blog")
    /\ UNCHANGED <<request, outcome, response>>
    /\ UNCHANGED mediaVars

RefineContent ==
    /\ pc = "refine_content"
    /\ \E llm \in LlmOutcomes :
         /\ state' = refine_content(state, llm)
         /\ env' = IF RefineSkips(state) THEN env
                   ELSE [env EXCEPT !.llm = llm, !.prompt = PromptContent(state)]
    /\ pc' = "generate_presentation"
    /\ trace' = Append(trace, "refine_content")
    /\ UNCHANGED <<request, outcome, response>>
    /\ UNCHANGED mediaVars

\* generate_presentation; an exception it lets through ends process_url, and
\* the server's handler turns it into a 500
GeneratePresentation ==
    /\ pc = "generate_presentation"
    /\ LET built == BuildSlides(state)
       IN  IF built.raised
           THEN /\ outcome' = [kind |-> "raised", exc |-> built.exc]
                /\ response' = IF request.entry = "server"
                               THEN HttpError(500, "Failed to process URL: " \o built.exc)
                               ELSE response
                /\ pc' = "done"
                /\ UNCHANGED state
           ELSE /\ state' = [state EXCEPT !.presentation_slides = built.slides]
                /\ pc' = "END"
                /\ UNCHANGED <<outcome, response>>
    /\ trace' = Append(trace, "generate_presentation")
    /\ UNCHANGED <<request, env>>
    /\ UNCHANGED mediaVars

\* the workflow has ended: process_url returns its result, which the server's
\* handler sends as the response
Return ==
    /\ pc = "END"
    /\ outcome' = [kind |-> "returned", result |-> ProcessUrlResult(state)]
    /\ response' = IF request.entry = "server"
                   THEN [kind |-> "ok", status |-> 200,
                         body |-> ProcessUrlResult(state)]
                   ELSE response
    /\ pc' = "done"
    /\ UNCHANGED <<request, state, env, trace>>
    /\ UNCHANGED mediaVars

Next ==
    \/ ProcessUrl
    \/ ServerGeneratePresentation
    \/ ServerDetectUrlType
    \/ DetectUrlType
    \/ ExtractYoutube
    \/ ExtractBlog
    \/ RefineContent
    \/ GeneratePresentation
    \/ Return

Spec == Init /\ [][Next]_vars

\* the number of times a node has run
Runs(node) == Cardinality({i \in 1..Len(trace) : trace[i] = node})

\* generate_presentation called once more, on the state its first run returned
GeneratePresentationAgain ==
    /\ pc = "END"
    /\ Runs("generate_presentation") = 1
    /\ LET built == BuildSlides(state)
       IN  IF built.raised
           THEN /\ outcome' = [kind |-> "raised", exc |-> built.exc]
                /\ pc' = "done"
                /\ UNCHANGED state
           ELSE /\ state' = [state EXCEPT !.presentation_slides = built.slides]
                /\ pc' = "END"
                /\ UNCHANGED outcome
    /\ trace' = Append(trace, "generate_presentation")
    /\ UNCHANGED <<request, env, response>>
    /\ UNCHANGED mediaVars

\* the workflow, with slide building run a second time before the result is
\* returned
RebuildNext ==
    \/ Next
    \/ GeneratePresentationAgain

RebuildSpec == Init /\ [][RebuildNext]_vars

---------------------------------------------------------------------------
(* Narration: generate_narrated_audio of backend/narration.py, and the      *)
(* handler of backend/server.py that calls it. Durations are counted in     *)
(* tenths of a second.                                                      *)

MaxSlides == 2
MaxTime == 2

\* re.sub(r"\s+", " ", text): every run of blanks becomes one space
RECURSIVE CollapseBlanks(_)
CollapseBlanks(txt) ==
    IF txt = <<>> THEN <<>>
    ELSE IF IsBlank(Head(txt))
         THEN <<Sp(1)>> \o CollapseBlanks(LStrip(Tail(txt)))
         ELSE <<Head(txt)>> \o CollapseBlanks(Tail(txt))

clean_text(txt) == Strip(CollapseBlanks(txt))

\* f"slide_{idx + 1}_{timestamp}.{audio_format}"
FileName(idx, timestamp, audio_format) ==
    [slide |-> idx + 1, timestamp |-> timestamp, ext |-> audio_format]

NoFile == [slide |-> 0]

\* the order of the statements of the loop's body
StepAfter_MeasureBeforeWrite(step) ==
    CASE step = "model"   -> "tts"
      [] step = "tts"     -> "measure"
      [] step = "measure" -> "write"
      [] step = "write"   -> "model"

\* the statement of the loop's body that follows step; after the last one the
\* loop goes on to the next slide
StepAfter(step) ==
    CASE step = "model"   -> "tts"
      [] step = "tts"     -> "write"
      [] step = "write"   -> "measure"
      [] step = "measure" -> "model"

\* total_duration = duration_seconds, instead of +=
AddDuration_Assign(total_duration, duration_seconds) == duration_seconds

\* total_duration += duration_seconds
AddDuration(total_duration, duration_seconds) == total_duration + duration_seconds

\* the call has run the statement step of slide cl.idx; ok = FALSE when the
\* statement raised
Logged(cl, step, ok) ==
    [cl EXCEPT !.log = Append(cl.log, [slide |-> cl.idx, step |-> step, ok |-> ok])]

\* a failed call skipped: the loop goes on with the next slide
OnFailure_NextSlide(cl, exc) ==
    IF cl.idx + 1 < Len(cl.slides)
    THEN [cl EXCEPT !.idx = cl.idx + 1, !.step = "model"]
    ELSE [cl EXCEPT !.status = "returned",
                    !.idx = cl.idx + 1,
                    !.result = [kind |-> "returned",
                                slides |-> cl.narrated_slides,
                                total_duration_seconds |-> cl.total_duration]]

\* an exception raised inside the loop: nothing in generate_narrated_audio
\* catches it, and the handler turns it into a 500
OnFailure(cl, exc) ==
    [cl EXCEPT !.status = "raised",
               !.result = [kind |-> "raised", exc |-> exc],
               !.response = IF cl.entry = "server"
                            THEN HttpError(500, "Failed to generate narration: " \o exc)
                            ELSE cl.response]

\* the record appended for the slide just measured
NarratedSlide(cl, duration_seconds) ==
    [slide_index |-> cl.idx,
     title |-> Get(cl.slides[cl.idx + 1], "title", PyStr(<<>>)),
     narration_text |-> cl.narration_text,
     audio_file |-> cl.file_name,
     duration_seconds |-> duration_seconds]

\* what generate_narrated_audio returns
NarrationResult(narrated_slides, total_duration) ==
    [kind |-> "returned", slides |-> narrated_slides,
     total_duration_seconds |-> total_duration]

\* the NarrationResponse the handler builds from the result
NarrationResponse(result) ==
    [kind |-> "ok", status |-> 200,
     body |-> [success |-> TRUE,
               slides |-> [i \in 1..Len(result.slides) |->
                             [slide_index |-> result.slides[i].slide_index,
                              title |-> result.slides[i].title,
                              narration_text |-> result.slides[i].narration_text,
                              audio_url |-> result.slides[i].audio_file,
                              duration_seconds |-> result.slides[i].duration_seconds]],
               total_duration_seconds |-> result.total_duration_seconds]]

\* the call returns: the loop is over
Returns(cl) ==
    LET result == NarrationResult(cl.narrated_slides, cl.total_duration)
    IN  [cl EXCEPT !.status = "returned",
                   !.result = result,
                   !.response = IF cl.entry = "server" THEN NarrationResponse(result)
                                ELSE cl.response]

(* The inputs of narration *)

NarrationSlide(i) ==
    PyDict([type |-> PyStr(Lit("content")), title |-> Heading(i), content |-> Body(i)])

\* a slide dict with no title, which only a direct caller can pass
UntitledSlide == PyDict([content |-> Body(0)])

ServerSlideLists == {[i \in 1..n |-> NarrationSlide(i)] : n \in 0..MaxSlides}

DirectSlideLists == ServerSlideLists \cup {<<UntitledSlide>>}

AudioFormats == {"mp3", "wav"}

\* what the model replies with for a slide
NarrationReply == <<Sp(2), Prose("Welcome", 7), Nl(2), Prose("to the talk.", 12), Nl(1)>>

\* what the audio metadata reader measures; 0 also stands for a file it cannot
\* read
Durations == {0, 37}

NewCall(entry, slides, audio_format) ==
    [entry |-> entry, slides |-> slides, audio_format |-> audio_format,
     status |-> "idle", alone |-> TRUE, idx |-> 0, step |-> "model",
     narration_text |-> <<>>, file_name |-> NoFile, narrated_slides |-> <<>>,
     total_duration |-> 0, log |-> <<>>, result |-> Pending, response |-> Pending]

NarrationCalls ==
    {NewCall("server", sl, f) : sl \in ServerSlideLists, f \in AudioFormats}
      \cup {NewCall("direct", sl, "mp3") : sl \in DirectSlideLists}

\* the calls made while another call may be running
OverlappingCalls ==
    {NewCall("server", <<NarrationSlide(1)>>, "mp3"),
     NewCall("direct", <<NarrationSlide(1), NarrationSlide(2)>>, "mp3"),
     NewCall("direct", <<NarrationSlide(1)>>, "wav")}

\* the workflow is not running
FlowIdle ==
    /\ pc = "idle"
    /\ request = [entry |-> "none", url |-> <<>>, slide_count |-> PyNone]
    /\ state = initial_state(<<>>)
    /\ env = [transcript |-> NotCalled, oembed |-> NotCalled, http |-> NotCalled,
              llm |-> NotCalled, prompt |-> <<>>]
    /\ trace = <<>>
    /\ outcome = Pending
    /\ response = Pending

\* one narration call, or two that may overlap or follow each other
NarrationInit ==
    /\ FlowIdle
    /\ clock = 0
    /\ files = <<>>
    /\ narr \in {<<a>> : a \in NarrationCalls}
                  \cup {<<a, b>> : a \in OverlappingCalls, b \in OverlappingCalls}
    /\ video = [status |-> "idle"]

Running(c) == narr[c].status = "running"

\* POST /api/generate-narration up to its call of generate_narrated_audio, or
\* a direct call of generate_narrated_audio, up to the loop
NarrationStart(c) ==
    /\ narr[c].status = "idle"
    /\ LET cl == [narr[c] EXCEPT
                    !.alone = \A o \in DOMAIN narr : o # c => ~Running(o)]
       IN  narr' = [narr EXCEPT ![c] =
                IF cl.entry = "server" /\ cl.slides = <<>>
                THEN [cl EXCEPT !.status = "rejected",
                                !.response = HttpError(400, "Slides cannot be empty")]
                ELSE IF cl.slides = <<>> THEN Returns(cl)
                ELSE [cl EXCEPT !.status = "running"]]
    /\ UNCHANGED <<clock, files, video>>
    /\ UNCHANGED flowVars

\* _generate_slide_narration(slide, model, target_words)
ModelRequest(c) ==
    /\ Running(c)
    /\ narr[c].step = "model"
    /\ \E raises \in BOOLEAN :
         narr' = [narr EXCEPT ![c] =
            IF raises
            THEN OnFailure(Logged(narr[c], "model", FALSE), "model call failed")
            ELSE [Logged(narr[c], "model", TRUE) EXCEPT
                    !.narration_text = clean_text(NarrationReply),
                    !.step = StepAfter("model")]]
    /\ UNCHANGED <<clock, files, video>>
    /\ UNCHANGED flowVars

\* _elevenlabs_tts(narration_text)
SpeechSynthesis(c) ==
    /\ Running(c)
    /\ narr[c].step = "tts"
    /\ \E raises \in BOOLEAN :
         narr' = [narr EXCEPT ![c] =
            IF raises
            THEN OnFailure(Logged(narr[c], "tts", FALSE),
                           "ELEVENLABS_API_KEY is not configured")
            ELSE [Logged(narr[c], "tts", TRUE) EXCEPT !.step = StepAfter("tts")]]
    /\ UNCHANGED <<clock, files, video>>
    /\ UNCHANGED flowVars

\* timestamp = int(time.time()); file_path.write_bytes(audio_bytes)
WriteAudio(c) ==
    /\ Running(c)
    /\ narr[c].step = "write"
    /\ LET file_name == FileName(narr[c].idx, clock, narr[c].audio_format)
       IN  /\ files' = [n \in DOMAIN files \cup {file_name} |->
                          IF n = file_name THEN [call |-> c, slide |-> narr[c].idx]
                          ELSE files[n]]
           /\ narr' = [narr EXCEPT ![c] =
                  [Logged(narr[c], "write", TRUE) EXCEPT !.file_name = file_name,
                                                   !.step = StepAfter("write")]]
    /\ UNCHANGED <<clock, video>>
    /\ UNCHANGED flowVars

\* _get_audio_duration_seconds(file_path), to the end of the loop's body; after
\* the last slide the call returns, and the handler builds its response
MeasureDuration(c) ==
    /\ Running(c)
    /\ narr[c].step = "measure"
    /\ \E duration_seconds \in Durations :
         LET cl == [Logged(narr[c], "measure", TRUE) EXCEPT
                      !.total_duration = AddDuration(narr[c].total_duration,
                                                     duration_seconds),
                      !.narrated_slides = Append(narr[c].narrated_slides,
                                                 NarratedSlide(narr[c], duration_seconds)),
                      !.idx = narr[c].idx + 1,
                      !.step = StepAfter("measure")]
         IN  narr' = [narr EXCEPT ![c] =
                  IF cl.idx = Len(cl.slides) /\ cl.step = "model" THEN Returns(cl)
                  ELSE cl]
    /\ UNCHANGED <<clock, files, video>>
    /\ UNCHANGED flowVars

\* a second passes while a call is still to start or running
Tick ==
    /\ clock < MaxTime
    /\ \E c \in DOMAIN narr : narr[c].status \in {"idle", "running"}
    /\ clock' = clock + 1
    /\ UNCHANGED <<files, narr, video>>
    /\ UNCHANGED flowVars

NarrationNext ==
    \/ \E c \in DOMAIN narr : NarrationStart(c)
    \/ \E c \in DOMAIN narr : ModelRequest(c)
    \/ \E c \in DOMAIN narr : SpeechSynthesis(c)
    \/ \E c \in DOMAIN narr : WriteAudio(c)
    \/ \E c \in DOMAIN narr : MeasureDuration(c)
    \/ Tick

NarrationSpec == NarrationInit /\ [][NarrationNext]_vars

---------------------------------------------------------------------------
(* Video export: generate_video of backend/video_gen.py, and the handler    *)
(* export_video of backend/server.py that calls it                          *)

MaxClips == 3

\* two audio files that are in the audio directory, and one that is not
AudioA == FileName(0, 0, "mp3")
AudioB == FileName(1, 0, "mp3")
AudioGone == FileName(2, 0, "mp3")

\* the lists of audio file names a request may hold
AudioLists == UNION {[1..n -> {AudioA, AudioB, AudioGone}] : n \in 0..MaxClips}

NewExport(entry, slides, audio_files) ==
    [entry |-> entry, slides |-> slides, audio_files |-> audio_files,
     status |-> "new", audio_paths |-> <<>>, i |-> 0, clips |-> <<>>,
     written |-> FALSE, result |-> Pending, response |-> Pending]

VideoExports ==
    {NewExport(entry, [i \in 1..n |-> NarrationSlide(i)], audio_files) :
        entry \in {"direct", "server"}, n \in 0..MaxClips, audio_files \in AudioLists}

VideoInit ==
    /\ FlowIdle
    /\ clock = 0
    /\ files = [n \in {AudioA, AudioB} |-> [call |-> 1, slide |-> n.slide - 1]]
    /\ narr = <<>>
    /\ video \in VideoExports

\* zip(slides, audio_paths): the number of pairs
PairCount(slides, audio_paths) == Min(Len(slides), Len(audio_paths))

\* every path taken for an existing file
Exists_Always(path) == TRUE

\* os.path.exists(path)
Exists(path) == path \in DOMAIN files

\* the path generate_video is told to write to
OutputPath == PyStr(Lit("presentation_1a2b3c4d.mp4"))

\* POST /api/export-video up to its call of generate_video, or a direct call of
\* generate_video, up to the loop
VideoStart ==
    /\ video.status = "new"
    /\ video' =
         IF video.entry = "server"
              /\ \E k \in 1..Len(video.audio_files) : ~Exists(video.audio_files[k])
         THEN [video EXCEPT !.status = "rejected",
                            !.response = HttpError(404, "Audio file not found")]
         ELSE [video EXCEPT !.status = "running",
                            !.audio_paths = video.audio_files]
    /\ UNCHANGED <<clock, files, narr>>
    /\ UNCHANGED flowVars

\* one turn of the loop over the pairs; AudioFileClip raises for a file that
\* is not there
VideoPair ==
    /\ video.status = "running"
    /\ video.i < PairCount(video.slides, video.audio_paths)
    /\ LET audio_path == video.audio_paths[video.i + 1]
       IN  video' =
             IF ~Exists(audio_path) THEN [video EXCEPT !.i = video.i + 1]
             ELSE IF audio_path \notin DOMAIN files
                  THEN [video EXCEPT
                          !.status = "raised",
                          !.result = [kind |-> "raised", exc |-> "OSError"],
                          !.response = IF video.entry = "server"
                                       THEN HttpError(500, "Video export failed: OSError")
                                       ELSE video.response]
                  ELSE [video EXCEPT !.i = video.i + 1,
                                     !.clips = Append(video.clips, video.i)]
    /\ UNCHANGED <<clock, files, narr>>
    /\ UNCHANGED flowVars

\* after the loop: no clip gives None and no file; else the clips are joined,
\* the video is written and its path returned; the handler answers
VideoFinish ==
    /\ video.status = "running"
    /\ video.i = PairCount(video.slides, video.audio_paths)
    /\ video' =
         IF video.clips = <<>>
         THEN [video EXCEPT
                 !.status = "returned",
                 !.result = [kind |-> "returned", path |-> PyNone],
                 !.response = IF video.entry = "server"
                              THEN HttpError(500, "Video generation failed")
                              ELSE video.response]
         ELSE [video EXCEPT
                 !.status = "returned",
                 !.written = TRUE,
                 !.result = [kind |-> "returned", path |-> OutputPath],
                 !.response = IF video.entry = "server"
                              THEN [kind |-> "ok", status |-> 200,
                                    body |-> [video_url |-> OutputPath]]
                              ELSE video.response]
    /\ UNCHANGED <<clock, files, narr>>
    /\ UNCHANGED flowVars

VideoNext ==
    \/ VideoStart
    \/ VideoPair
    \/ VideoFinish

VideoSpec == VideoInit /\ [][VideoNext]_vars

---------------------------------------------------------------------------
(* Properties *)

Ran(node) == \E i \in 1..Len(trace) : trace[i] = node

Direct == request.entry = "direct"

\* process_url has returned
HasReturned == outcome.kind = "returned"

ResultKeys == {"success", "url", "url_type", "title", "slides", "error"}

\* refine_content has run
AfterRefine == Ran("refine_content")

\* generate_presentation has run and stored a slide list
Built == Ran("generate_presentation") /\ outcome.kind # "raised"

RefinedPresent == state.refined_content # <<>>
ErrorPresent == state.error # PyNone

\* the model was called and replied
Replied == env.llm.kind = "reply"

\* the list holds the error slide and nothing else
IsErrorDeck(slides, error) ==
    /\ Len(slides) = 1
    /\ slides[1].type = "error"
    /\ slides[1].content = error

\* C1: for every URL and every outcome of the external services, process_url
\* returns a result record with the six keys and never ends with an
\* exception. (The code lets the exceptions of generate_presentation's try
\* block through when the JSON it parsed has not the expected shape.)
C1_ProcessUrlAlwaysReturns ==
    (Direct /\ pc = "done") =>
        /\ outcome.kind = "returned"
        /\ DOMAIN outcome.result = ResultKeys

\* C2: a generate-presentation request with a non-blank URL and a slide count
\* that is absent or positive comes back as the result of the pipeline, not
\* as a request-level failure. (The handler calls process_url with two
\* arguments and process_url takes one.)
C2_RequestReachesPipeline ==
    (/\ request.entry = "server"
     /\ pc = "done"
     /\ UrlStrip(request.url) # <<>>
     /\ (request.slide_count = PyNone \/ request.slide_count.n > 0))
    => /\ response.kind = "ok"
       /\ DOMAIN response.body = ResultKeys

\* C3, as stated: after refine_content has run exactly one of "refined
\* content is present" and "an error is present" holds.
C3_ExactlyOne == AfterRefine => (RefinedPresent # ErrorPresent)

\* C3, amended: after refine_content has run, both are present exactly when
\* the model was called and the step recorded an error (refined content is
\* then the raw text); neither is present exactly when there is no error and
\* either the model was not called (the raw content is empty) or it replied
\* the empty text; in every other case exactly one is present.
C3_RefinedOrError ==
    AfterRefine =>
        /\ (RefinedPresent /\ ErrorPresent)
             <=> (env.llm # NotCalled /\ ErrorPresent)
        /\ (RefinedPresent /\ ErrorPresent)
             => state.refined_content = state.raw_content
        /\ (~RefinedPresent /\ ~ErrorPresent)
             <=> (/\ ~ErrorPresent
                  /\ \/ env.llm = NotCalled /\ state.raw_content = <<>>
                     \/ Replied /\ env.llm.text = <<>>)

C3_WitnessBoth == AfterRefine /\ RefinedPresent /\ ErrorPresent /\ pc = "END"

\* C4: when the model replies a text with no {...} span, or with a {...} span
\* that does not parse as JSON, refine_content stores the reply as it is as
\* refined content and records no error. (The code treats the span that does
\* not parse as a failure of the step.)
C4_UnparsedReplyIsKept ==
    (/\ AfterRefine
     /\ Replied
     /\ \/ ~JsonMatch(env.llm.text).found
        \/ ~JsonLoads(JsonMatch(env.llm.text).group).ok)
    => /\ state.refined_content = env.llm.text
       /\ state.error = PyNone

\* C5: when the model call raises, refine_content records an error and sets
\* refined content to the raw text, and slide building then makes the chunked
\* slide list of that text. (The slide builder parses the raw text as JSON
\* first, and lets an exception through when it is JSON but no object.)
C5_ModelFailureFallsBackToChunks ==
    (env.llm.kind = "raise" /\ pc \in {"END", "done"})
    => /\ ErrorPresent
       /\ state.refined_content = state.raw_content
       /\ outcome.kind # "raised"
       /\ state.presentation_slides = FallbackSlides(state)

\* C6, as stated: the slide list is the single error slide if and only if an
\* error is set and refined content is empty, and whenever process_url
\* returns success = false its slide list is that single error slide.
C6_ErrorSlideOnlyFatalPath ==
    /\ Built =>
         (IsErrorDeck(state.presentation_slides, state.error)
            <=> (ErrorPresent /\ ~RefinedPresent))
    /\ (HasReturned /\ ~outcome.result.success)
         => IsErrorDeck(outcome.result.slides, outcome.result.error)

\* C6, amended: the slide list is the single error slide if and only if an
\* error is set and refined content is empty; a result with that slide list
\* has success = false; a result with success = false has either that slide
\* list or, when refine_content itself recorded the error, the slides built
\* from the raw text.
C6_ErrorSlide ==
    /\ Built =>
         (IsErrorDeck(state.presentation_slides, state.error)
            <=> (ErrorPresent /\ ~RefinedPresent))
    /\ (HasReturned /\ IsErrorDeck(outcome.result.slides, outcome.result.error))
         => ~outcome.result.success
    /\ (HasReturned /\ ~outcome.result.success)
         => \/ IsErrorDeck(outcome.result.slides, outcome.result.error)
            \/ /\ env.llm # NotCalled
               /\ state.refined_content = state.raw_content
               /\ Len(outcome.result.slides) >= 2

C6_WitnessErrorDeck ==
    HasReturned /\ IsErrorDeck(outcome.result.slides, outcome.result.error)

\* the extraction step failed: no video id, or the transcript or page fetch
\* or the processing of the page raised
ExtractionFailed ==
    IF state.url_type = "youtube"
    THEN extract_youtube_id(state.url) = PyNone \/ env.transcript.kind = "raise"
    ELSE env.http.kind \in {"request_error", "processing_error"}

Placeholder == IF state.url_type = "youtube" THEN YoutubePlaceholder ELSE BlogPlaceholder

\* C7: after either extraction branch, on success the error is None, and on
\* every failure path the raw content is empty, the title is the placeholder
\* of the branch and an error message is recorded. (The path "no video id"
\* does not set the title.)
C7_ExtractionOutcome ==
    pc = "refine_content" =>
        IF ExtractionFailed
        THEN /\ state.raw_content = <<>>
             /\ state.title = Placeholder
             /\ state.error # PyNone
        ELSE state.error = PyNone

\* a run on a URL that holds a video-link pattern and no video id
NoIdVideo ==
    /\ pc # "request"
    /\ IsYoutube(state.url)
    /\ extract_youtube_id(state.url) = PyNone

NoIdMessage == PyStr(Lit("Could not extract YouTube video ID from URL"))

\* C8: for a URL tagged video from which no 11-character id can be read, the
\* transcript service and the model are never called, the run goes on to its
\* end, and process_url returns success = false with the single error slide
\* whose body is the message extraction recorded.
C8_NoIdVideoEndsInErrorSlide ==
    NoIdVideo =>
        /\ env.transcript = NotCalled
        /\ env.llm = NotCalled
        /\ outcome.kind # "raised"
        /\ pc # "done" => ENABLED Next
        /\ Ran("extract_youtube") => state.error = NoIdMessage
        /\ pc = "done" =>
             /\ HasReturned
             /\ ~outcome.result.success
             /\ outcome.result.error = NoIdMessage
             /\ IsErrorDeck(outcome.result.slides, NoIdMessage)

C8_WitnessNoIdVideoDone == NoIdVideo /\ pc = "done" /\ HasReturned

\* a JSON object with a title, a summary and a list of key points
WellShaped(v) ==
    /\ v.k = "dict"
    /\ {"title", "summary", "key_points"} \subseteq DOMAIN v.f
    /\ v.f.title.k = "str"
    /\ v.f.summary.k = "str"
    /\ v.f.key_points.k = "list"
    /\ \A i \in 1..Len(v.f.key_points.items) : v.f.key_points.items[i].k = "dict"

StructuredRefined ==
    /\ JsonLoads(state.refined_content).ok
    /\ WellShaped(JsonLoads(state.refined_content).val)

PointsOf(st) == JsonLoads(st.refined_content).val.f.key_points.items

\* C9: for refined content that is a JSON object with a title, a summary and
\* N key points, slide building yields 1 + N + 1 slides: the title slide, the
\* N content slides in the order of the key points, the k-th with position
\* number k + 1, and the closing slide.
C9_StructuredSlides ==
    (Ran("generate_presentation") /\ StructuredRefined) =>
        LET points == PointsOf(state)
            slides == state.presentation_slides
            N == Len(points)
        IN  /\ outcome.kind # "raised"
            /\ Len(slides) = 1 + N + 1
            /\ slides[1].type = "title"
            /\ slides[N + 2].type = "closing"
            /\ \A k \in 1..N :
                 /\ slides[k + 1].type = "content"
                 /\ slides[k + 1].slide_number = k + 1
                 /\ slides[k + 1].title
                      = Get(points[k], "heading", PyStr(Lit("Point ") \o <<Num(k)>>))
                 /\ slides[k + 1].content = Get(points[k], "content", PyStr(<<>>))

C9_WitnessSixPoints ==
    /\ Built
    /\ StructuredRefined
    /\ Len(PointsOf(state)) = 6
    /\ Len(state.presentation_slides) = 8

\* the length of what a slide shows as its body
BodyLen(slide) == IF slide.content.k = "str" THEN TextLen(slide.content.s) ELSE 0

\* C10: for refined content that is not valid JSON, slide building returns at
\* most 1 + 10 + 1 = 12 slides, and the body of every content slide is at most
\* 400 characters long; outside the error branch the list is one title slide,
\* at most 10 content slides and one closing slide.
C10_FallbackIsBounded ==
    (Built /\ ~JsonLoads(state.refined_content).ok) =>
        LET slides == state.presentation_slides
        IN  /\ Len(slides) <= 12
            /\ \A i \in 1..Len(slides) :
                 slides[i].type = "content" => BodyLen(slides[i]) <= 400
            /\ ~(ErrorPresent /\ ~RefinedPresent) =>
                 /\ Len(slides) >= 2
                 /\ slides[1].type = "title"
                 /\ slides[Len(slides)].type = "closing"
                 /\ \A i \in 2..(Len(slides) - 1) : slides[i].type = "content"

C10_WitnessFullDeck ==
    /\ Built
    /\ ~JsonLoads(state.refined_content).ok
    /\ Len(state.presentation_slides) = 12
    /\ \E i \in 1..12 :
         /\ state.presentation_slides[i].type = "content"
         /\ BodyLen(state.presentation_slides[i]) = 400

---------------------------------------------------------------------------
(* Classification *)

\* the URL holds one of the known video-link shapes, anywhere in it
HasVideoLink(url) ==
    \E i \in 1..Len(url) : url[i].t = "link" /\ url[i].shape \in LinkShapes

KindOf(url) == IF HasVideoLink(url) THEN "youtube" ELSE "blog"

\* C12: a URL that holds one of the known video-link shapes (watch, short
\* link, embed, /v/, shorts) is classified youtube and every other URL blog, by
\* the workflow's classifier and by the classification endpoint alike; the
\* classifier always completes and never leaves the kind "unknown".
C12_Classification ==
    /\ pc = "detect_url_type" => ENABLED DetectUrlType
    /\ Ran("detect_url_type") =>
         /\ state.url_type = KindOf(state.url)
         /\ state.url_type # "unknown"
    /\ (request.entry = "detect" /\ pc = "done") =>
         /\ response.kind = "ok"
         /\ response.body.url = request.url
         /\ response.body.type = KindOf(request.url)

C12_WitnessLinkInside ==
    /\ Ran("detect_url_type")
    /\ state.url = <<Plain, Link("embed", 0), Plain>>
    /\ state.url_type = "youtube"

---------------------------------------------------------------------------
(* Idempotence of slide building *)

\* C11: slide building run a second time on the state it has just produced
\* (same refined content, title, url and error) completes and leaves a slide
\* list identical to the first one, and nothing else of the state changed.
C11_RebuildIsIdempotent ==
    [][(Runs("generate_presentation") = 1 /\ Runs("generate_presentation")' = 2)
         => /\ state' = state
            /\ outcome' = outcome
            /\ pc' = "END"]_vars

C11_WitnessRebuiltFallback ==
    /\ Runs("generate_presentation") = 2
    /\ pc = "done"
    /\ HasReturned
    /\ ~JsonLoads(state.refined_content).ok
    /\ Len(outcome.result.slides) = 12

---------------------------------------------------------------------------
(* The numeric limits of the fallback branch and of article extraction *)

\* the chunks the fallback branch packs from the content it reads
FallbackChunks(st) ==
    Chunks(IF st.refined_content # <<>> THEN st.refined_content ELSE st.raw_content)

\* slide building took its fallback branch
TookFallback == Built /\ ~IsFatal(state) /\ ~JsonLoads(state.refined_content).ok

\* C19: in the fallback branch every chunk packed from the paragraphs is at
\* most 500 characters long, also for a text with a single paragraph longer
\* than 500 characters.
C19_ChunksWithinLimit ==
    TookFallback =>
        \A i \in 1..Len(FallbackChunks(state)) :
            TextLen(FallbackChunks(state)[i]) <= 500

\* the stripped texts of the fragments that are at least n characters long
RECURSIVE AtLeast(_, _)
AtLeast(frags, n) ==
    IF frags = <<>> THEN <<>>
    ELSE (IF TextLen(Strip(Head(frags))) >= n THEN <<Strip(Head(frags))>> ELSE <<>>)
           \o AtLeast(Tail(frags), n)

\* the article extractor read the fragments of an element of the page
ReadFragments ==
    /\ Ran("extract_blog")
    /\ env.http.kind = "page"
    /\ MainContent(env.http.page) # ""

PageFragments == env.http.page.roots[MainContent(env.http.page)]

\* C20: article extraction keeps exactly the fragments whose stripped text is
\* 20 characters long or longer: the raw content is these fragments, in order,
\* joined by blank lines, and no fragment under 20 characters is in it.
C20_KeepsTwentyOrMore ==
    ReadFragments =>
        state.raw_content = CollapseNewlines(Join(<<Nl(2)>>, AtLeast(PageFragments, 20)))

---------------------------------------------------------------------------
(* Narration *)

\* the durations of the records of a list, in order
DurationsOf(records) == [i \in 1..Len(records) |-> records[i].duration_seconds]

\* C13: a narration call that completes returns exactly one record per input
\* slide, in input order, the i-th with slide_index i - 1 and the slide's
\* title, every duration_seconds >= 0, and total_duration_seconds equal to the
\* sum of the returned duration_seconds; the handler's response carries the
\* same records and total.
C13_OneRecordPerSlide ==
    \A c \in DOMAIN narr :
        narr[c].status = "returned" =>
            LET cl == narr[c]
                records == cl.result.slides
            IN  /\ Len(records) = Len(cl.slides)
                /\ \A i \in 1..Len(records) :
                     /\ records[i].slide_index = i - 1
                     /\ records[i].title = Get(cl.slides[i], "title", PyStr(<<>>))
                     /\ records[i].duration_seconds >= 0
                /\ cl.result.total_duration_seconds = SumSeq(DurationsOf(records))
                /\ cl.entry = "server" =>
                     /\ cl.response.kind = "ok"
                     /\ Len(cl.response.body.slides) = Len(cl.slides)
                     /\ \A i \in 1..Len(records) :
                          cl.response.body.slides[i].slide_index = i - 1
                     /\ cl.response.body.total_duration_seconds
                          = SumSeq(DurationsOf(cl.response.body.slides))

C13_WitnessTwoSlidesSummed ==
    \E c \in DOMAIN narr :
        /\ narr[c].status = "returned"
        /\ narr[c].entry = "server"
        /\ DurationsOf(narr[c].result.slides) = <<37, 37>>
        /\ narr[c].response.body.total_duration_seconds = 74

\* the order the claim gives to the steps of one slide
StepOrder == <<"model", "tts", "write", "measure">>

\* C14: within one narration call the steps are strictly ordered: for each
\* slide model request, speech synthesis, file write, duration measurement,
\* and the model request of slide i+1 comes only after all four steps of slide
\* i, when the audio file of slide i is in the audio directory.
C14_StepsInOrder ==
    \A c \in DOMAIN narr :
        LET cl == narr[c]
        IN  /\ \A j \in 1..Len(cl.log) :
                 /\ cl.log[j].slide = (j - 1) \div 4
                 /\ cl.log[j].step = StepOrder[((j - 1) % 4) + 1]
            /\ \A j \in 1..Len(cl.log) :
                 (cl.log[j].step = "model" /\ cl.log[j].slide > 0) =>
                     /\ Len(cl.narrated_slides) >= cl.log[j].slide
                     /\ cl.narrated_slides[cl.log[j].slide].audio_file \in DOMAIN files
                     /\ cl.narrated_slides[cl.log[j].slide].audio_file.slide
                          = cl.log[j].slide

C14_WitnessSecondSlideRequested ==
    \E c \in DOMAIN narr :
        /\ Len(narr) = 2
        /\ ~narr[c].alone
        /\ Len(narr[c].log) = 5
        /\ narr[c].log[5] = [slide |-> 1, step |-> "model", ok |-> TRUE]

\* a step of the call c
CallStep(c) ==
    \/ NarrationStart(c)
    \/ ModelRequest(c)
    \/ SpeechSynthesis(c)
    \/ WriteAudio(c)
    \/ MeasureDuration(c)

\* the places of the log where a call failed
Failures(cl) == {j \in 1..Len(cl.log) : ~cl.log[j].ok}

\* C15: when the model call or the speech-synthesis call fails for slide k,
\* the narration call as a whole fails: the failed call is the last thing it
\* does (no retry, no later slide), it returns no list of records, partial or
\* not, and the narration endpoint answers with an error (500).
C15_FailureAbortsNarration ==
    \A c \in DOMAIN narr :
        LET cl == narr[c]
        IN  /\ cl.status = "raised" <=> Failures(cl) # {}
            /\ Failures(cl) # {} =>
                 /\ Failures(cl) = {Len(cl.log)}
                 /\ cl.log[Len(cl.log)].step \in {"model", "tts"}
                 /\ \A j \in 1..(Len(cl.log) - 1) :
                      ~(/\ cl.log[j].slide = cl.log[Len(cl.log)].slide
                        /\ cl.log[j].step = cl.log[Len(cl.log)].step)
                 /\ \A j \in 1..Len(cl.log) : cl.log[j].slide <= cl.log[Len(cl.log)].slide
                 /\ cl.result.kind = "raised"
                 /\ cl.entry = "server" =>
                      /\ cl.response.kind = "error"
                      /\ cl.response.status = 500
                 /\ cl.entry = "direct" => cl.response = Pending
                 /\ ~ENABLED CallStep(c)

C15_WitnessFailsOnSecondSlide ==
    \E c \in DOMAIN narr :
        /\ narr[c].status = "raised"
        /\ narr[c].entry = "server"
        /\ Len(narr[c].narrated_slides) = 1
        /\ narr[c].log[Len(narr[c].log)] = [slide |-> 1, step |-> "tts", ok |-> FALSE]

\* the file names the call has written so far
WrittenBy(cl) ==
    {cl.narrated_slides[i].audio_file : i \in 1..Len(cl.narrated_slides)}
      \cup (IF cl.file_name = NoFile THEN {} ELSE {cl.file_name})

\* C16: the audio files written to the shared directory have names unique per
\* call: any two narration calls, overlapping or one after the other, write
\* files of distinct names, so that no call overwrites a file of another.
C16_NamesUniquePerCall ==
    \A a, b \in DOMAIN narr :
        a # b => WrittenBy(narr[a]) \cap WrittenBy(narr[b]) = {}

---------------------------------------------------------------------------
(* Video export *)

\* the positions, from 0, of the pairs (slide, audio path) whose audio file is
\* in the audio directory
ValidPairs(slides, audio_paths) ==
    {k \in 0..(Len(slides) - 1) :
        k < Len(audio_paths) /\ audio_paths[k + 1] \in DOMAIN files}

\* the elements of a set of numbers, in increasing order
RECURSIVE Ascending(_)
Ascending(S) ==
    IF S = {} THEN <<>> ELSE <<SetMin(S)>> \o Ascending(S \ {SetMin(S)})

\* C17: generate_video pairs slides and audio paths position by position and
\* uses only the overlapping prefix of the two lists; a pair whose audio file
\* does not exist is skipped and nothing is raised; it returns the output path,
\* with the video written, when at least one pair gave a clip, and None, with
\* no video written, when none did.
C17_PairsAndSkips ==
    video.status \in {"running", "returned", "raised"} =>
        LET valid == ValidPairs(video.slides, video.audio_paths)
        IN  /\ video.status # "raised"
            /\ video.clips = Ascending({k \in valid : k < video.i})
            /\ video.i <= Len(video.slides) /\ video.i <= Len(video.audio_paths)
            /\ video.status = "running" => ENABLED VideoNext
            /\ video.status = "returned" =>
                 /\ video.clips = Ascending(valid)
                 /\ valid # {} => video.result.path = OutputPath /\ video.written
                 /\ valid = {} => video.result.path = PyNone /\ ~video.written

C17_WitnessSkipsAndPrefix ==
    /\ video.status = "returned"
    /\ video.entry = "direct"
    /\ Len(video.slides) = 2
    /\ video.audio_paths = <<AudioGone, AudioA, AudioB>>
    /\ video.clips = <<1>>
    /\ video.result.path = OutputPath

\* C18: at the video endpoint a missing audio file is not fatal: the request
\* succeeds, with a video of the remaining slides, whenever at least one slide
\* has its audio file, and fails only when no slide survives.
C18_MissingAudioNotFatal ==
    (video.entry = "server" /\ video.status \in {"rejected", "returned", "raised"}) =>
        (video.response.kind = "ok"
           <=> ValidPairs(video.slides, video.audio_files) # {})

---------------------------------------------------------------------------
(* The order of the steps *)

\* the nodes of a complete run for a source of the given kind, in order
NodeOrder(kind) ==
    <<"detect_url_type",
      IF kind = "youtube" THEN "extract_youtube" ELSE "extract_blog",
      "refine_content",
      "generate_presentation">>

\* the nodes run so far are the first nodes of the fixed order, each once, with
\* the video extractor exactly for a video URL
RanInOrder ==
    /\ Len(trace) <= 4
    /\ trace = SubSeq(NodeOrder(KindOf(state.url)), 1, Len(trace))

\* the workflow has been started
Started == pc = "detect_url_type" \/ trace # <<>>

\* the run has stopped: no node is left to run and process_url is over
Stopped == Started /\ pc = "done"

\* the node the graph runs next, END once the four nodes have run
NextNode ==
    IF Len(trace) < 4
    THEN NodeOrder(KindOf(state.url))[Len(trace) + 1]
    ELSE "END"

\* C21: every run of the workflow executes classify, then exactly one
\* extractor (the video extractor if and only if the kind is video), then
\* summarize, then build slides, then ends; no step runs twice; the slide list
\* is empty as long as the slide-building step has not run; and every run
\* reaches the end: a run that has not stopped is at the next node of the
\* order, and a run that has stopped has run all four steps, passed the end of
\* the graph and returned its result.
C21_FixedOrderToEnd ==
    /\ RanInOrder
    /\ Ran("detect_url_type") => state.url_type = KindOf(state.url)
    /\ ~Ran("generate_presentation") => state.presentation_slides = <<>>
    /\ (Started /\ ~Stopped) => pc = NextNode
    /\ Stopped =>
         /\ Len(trace) = 4
         /\ outcome.kind = "returned"

---------------------------------------------------------------------------
(* The shape of the returned slide list *)

\* the kinds of the slides of a list, in order
Kinds(slides) == [i \in 1..Len(slides) |-> slides[i].type]

\* a single error slide
ErrorShape(slides) == Kinds(slides) = <<"error">>

\* one title slide first, one closing slide last, only content slides between
DeckShape(slides) ==
    /\ Len(slides) >= 2
    /\ slides[1].type = "title"
    /\ slides[Len(slides)].type = "closing"
    /\ \A i \in 2..(Len(slides) - 1) : slides[i].type = "content"

\* C22: every slide list process_url returns is either exactly one error
\* slide, and then success is false, or a title slide, content slides only and
\* a closing slide; a result with success true holds no error slide.
C22_SlideListShapes ==
    HasReturned =>
        LET result == outcome.result
        IN  /\ \/ ErrorShape(result.slides) /\ ~result.success
               \/ DeckShape(result.slides)
            /\ result.success =>
                 \A i \in 1..Len(result.slides) : result.slides[i].type # "error"

\* a failed run has returned the single error slide
C22_WitnessErrorSlide ==
    /\ HasReturned
    /\ ErrorShape(outcome.result.slides)
    /\ ~outcome.result.success

====
